---- MODULE Spec2Model ----
\* A model of the rate-acquisition engine of bb_currency:
\*   currency/provider_interface.py  (HttpJsonAdapter, FileJsonAdapter)
\*   currency/services.py            (orchestrator, period aggregation, TWRR)
\*   currency/models.py              (Currency, CurrencyExchangeRate, Provider)
\*
\* Representation.
\*   * A rate is an integer number of millionths (6 fractional digits, the
\*     precision of CurrencyExchangeRate.rate_value): 1.1 is 1100000.
\*   * A Python value is a record tagged by "t":
\*       None                        [t |-> "none"]
\*       a scalar x / y              [t |-> "dec", num |-> x, den |-> y]
\*       a dict  code -> rate        [t |-> "map", m |-> function]
\*       a file record               [t |-> "rec", base, date, rates]
\*   * A call's outcome is [k |-> "ok", v |-> value] or
\*     [k |-> "raise", e |-> exception class name].
\*   * exchanged_currency_code is a string that may be a comma-joined list
\*     of codes; it is modelled as the sequence of the joined codes, so
\*     ",".join([a, b]) is a \o b and ("," in s) is Len(s) > 1.
\*   * A date is a day number; strftime("%Y-%m-%d") and the DateField both
\*     keep the day and drop the time of day.
EXTENDS Integers, Sequences, FiniteSets, TLC

VARIABLES
    providers,   \* the Provider table: set of Provider rows
    currencies,  \* the Currency table: set of codes having a Currency row
    store,       \* the CurrencyExchangeRate table, rows in insertion order
    pc,          \* position of the running call
    op,          \* the running operation and its arguments
    order,       \* Provider.objects.order_by("priority"), as names
    idx,         \* index in order of the next provider of the for loop
    data,        \* the local variable data of the orchestrator
    trail,       \* the passes of the for loop so far: provider, adapter
                 \* request, outcome of the provider fetch
    raw,         \* outcome of the adapter request of the last pass
    errlog,      \* provider names written by logger.error
    outcome,     \* how the call ended
    series,      \* calculate_twrr: historical_rates
    amount,      \* calculate_twrr: amount
    twrr,        \* calculate_twrr: outcome
    query,       \* get_currency_rates_for_period: arguments
    period,      \* get_currency_rates_for_period: outcome
    ror,         \* get_weighted_ror: position and local variables
    weighted,    \* get_weighted_ror: outcome
    call,        \* an operation called on its own: its arguments
    answer,      \* an operation called on its own: its outcome
    view,        \* CurrencyRateListView.get: position and local variables
    reply        \* CurrencyRateListView.get: the response

vars == <<providers, currencies, store, pc, op, order, idx, data, trail,
          raw, errlog, outcome, series, amount, twrr, query, period, ror,
          weighted, call, answer, view, reply>>

orchVars == <<pc, op, order, idx, data, trail, raw, errlog, outcome>>
twrrVars == <<series, amount, twrr>>
viewVars == <<view, reply>>
periodVars == <<query, period, ror, weighted, view, reply>>
adapterVars == <<call, answer>>

----------------------------------------------------------------------------
\* Bounds of the model.

MaxProviders == 2     \* rows of the Provider table
MaxLen == 3           \* points of a calculate_twrr input series
MaxRate == 3          \* largest rate_value of a calculate_twrr input
MaxRows == 2          \* rows of the store a period query starts from
MaxDay == 2           \* calendar days 1..MaxDay
MaxRecords == 2       \* records of a provider's JSON file

\* round(x, 6) and DecimalField(decimal_places=6).
Places == 6
Scale == 10 ^ Places

Codes == {"EUR", "USD", "GBP"}
\* The source_currency_code arguments of the calls.
Sources == {"EUR", "USD"}
Days == 1 .. MaxDay
\* The valuation_date argument of the historical fetches.
FetchDays == {1}
\* Rates a resource reports, in millionths: 0, 0.9 and 1.1.
RateVals == {0, 900000, 1100000}

----------------------------------------------------------------------------
\* Python values.

None == [t |-> "none"]
Dec(n, d) == [t |-> "dec", num |-> n, den |-> d]
Map(m) == [t |-> "map", m |-> m]
Rec(b, d, r) == [t |-> "rec", base |-> b, date |-> d, rates |-> r]

Ok(v) == [k |-> "ok", v |-> v]
Raise(e) == [k |-> "raise", e |-> e]

EmptyMap == [c \in {} |-> 0]

Truthy(v) ==
    CASE v.t = "none" -> FALSE
      [] v.t = "dec" -> v.num # 0
      [] v.t = "map" -> DOMAIN v.m # {}
      [] OTHER -> TRUE

\* key in d, for a key given as a (possibly comma-joined) code string.
HasKey(m, key) == Len(key) = 1 /\ key[1] \in DOMAIN m

----------------------------------------------------------------------------
\* Arithmetic.

\* The first n fractional digits of r / b (0 <= r < b), and the remainder.
RECURSIVE LongDiv(_, _, _)
LongDiv(r, b, n) ==
    IF n = 0 THEN <<0, r>>
    ELSE LET d == (r * 10) \div b
             rest == LongDiv((r * 10) % b, b, n - 1)
         IN <<d * 10 ^ (n - 1) + rest[1], rest[2]>>

\* round(a / b, 6) in millionths, b > 0: round-half-even, as Python rounds
\* both a Decimal and a float.
RoundDiv(a, b) ==
    LET fr == LongDiv(a % b, b, Places)
        lo == (a \div b) * Scale + fr[1]
        twice == 2 * fr[2]
    IN IF twice > b \/ (twice = b /\ lo % 2 = 1) THEN lo + 1 ELSE lo

----------------------------------------------------------------------------
\* Configuration: the Provider table.

\* The keys of Provider.config each adapter constructor reads.
HttpPaths ==
    {"auth", "auth.access_key",
     "latest.request.path", "latest.request.args", "latest.response.path",
     "historical.request.path", "historical.request.args",
     "historical.response.path"}
FilePaths ==
    {"auth",
     "latest.request.path", "latest.response.path",
     "historical.request.path", "historical.response.path"}

\* The (resource_type, force_base_currency, config) of a Provider row;
\* force_base_currency "" is the null / blank field. The last kind is an
\* http provider whose config lacks auth.access_key and request.args.
ProviderKinds ==
    {[resource_type |-> "http", force_base_currency |-> "", config |-> HttpPaths],
     [resource_type |-> "http", force_base_currency |-> "EUR", config |-> HttpPaths],
     [resource_type |-> "json", force_base_currency |-> "", config |-> FilePaths],
     [resource_type |-> "json", force_base_currency |-> "EUR", config |-> FilePaths],
     [resource_type |-> "csv", force_base_currency |-> "", config |-> FilePaths],
     [resource_type |-> "http", force_base_currency |-> "", config |-> FilePaths]}

Provider(n, pr, kind) ==
    [name |-> n, priority |-> pr, resource_type |-> kind.resource_type,
     force_base_currency |-> kind.force_base_currency, config |-> kind.config]

\* Priorities of n rows, up to the renaming of rows and the renumbering of
\* priorities that order_by cannot see: row 1 has priority 1 and each next
\* row the same priority as the row before it (a tie) or the next one.
PriorityLists(n) ==
    {f \in [1 .. n -> 1 .. n] :
       /\ n > 0 => f[1] = 1
       /\ \A i \in 2 .. n : f[i] \in {f[i - 1], f[i - 1] + 1}}

\* Every Provider table of at most MaxProviders rows (name is unique).
ProviderTables ==
    UNION {{{Provider(i, pr[i], kd[i]) : i \in 1 .. n} :
              pr \in PriorityLists(n), kd \in [1 .. n -> ProviderKinds]} :
           n \in 0 .. MaxProviders}

ProviderNamed(n) == CHOOSE p \in providers : p.name = n

\* Provider.objects.order_by("priority"): the rows by ascending priority,
\* rows of equal priority in an order the database chooses.
OrderByPriority(table) ==
    LET names == {p.name : p \in table}
        prio(n) == (CHOOSE p \in table : p.name = n).priority
    IN {s \in [1 .. Cardinality(table) -> names] :
          /\ \A i, j \in DOMAIN s : i # j => s[i] # s[j]
          /\ \A i, j \in DOMAIN s : i < j => prio(s[i]) <= prio(s[j])}

----------------------------------------------------------------------------
\* The external resources, as the environment may present them.

\* The rates an HTTP answer may give for a code, in millionths.
RatesOf(c) ==
    CASE c = "USD" -> {0, 1100000}
      [] c = "GBP" -> {0, 900000}
      [] OTHER -> {900000}
RateMaps ==
    UNION {{m \in [S -> RateVals] : \A c \in S : m[c] \in RatesOf(c)} :
           S \in SUBSET Codes}

\* response.get(response_path, None) of an HTTP answer.
HttpBodies == {None} \cup {Map(m) : m \in RateMaps}

\* A JSON file: an array of {base, date, rates} records. The records a
\* file may hold: for either base and either date, and with a rates dict
\* that holds a zero rate or a code without a Currency row ("CHF").
RecordDays == {1, 2}
FileRecords ==
    {Rec("EUR", 1, [c \in {"USD", "GBP"} |-> IF c = "USD" THEN 1100000 ELSE 900000]),
     Rec("EUR", 1, [c \in {"GBP", "CHF"} |-> 900000]),
     Rec("EUR", 2, [c \in {"USD"} |-> 1100000]),
     Rec("USD", 1, [c \in {"EUR", "GBP"} |-> IF c = "EUR" THEN 900000 ELSE 0])}
Files == UNION {[1 .. n -> FileRecords] : n \in 0 .. MaxRecords}

Resources(p) ==
    IF p.resource_type = "http" THEN HttpBodies
    ELSE IF p.resource_type = "json" THEN Files
    ELSE {None}

----------------------------------------------------------------------------
\* provider_interface.py

\* __init__ succeeds iff every key it subscripts is present (else KeyError).
HttpJsonAdapter_init(config) == HttpPaths \subseteq config
FileJsonAdapter_init(config) == FilePaths \subseteq config

HttpJsonAdapter_get_latest_rate(source, exchanged, body) ==
    IF ~Truthy(body) THEN Raise("ProviderError")
    ELSE IF Len(exchanged) > 1 THEN Ok(body)
    ELSE IF HasKey(body.m, exchanged) THEN Ok(Dec(body.m[exchanged[1]], Scale))
    ELSE Raise("KeyError")

HttpJsonAdapter_get_historical_rates(source, exchanged, date, body) ==
    IF ~Truthy(body) THEN Raise("ProviderError") ELSE Ok(body)

FileJsonAdapter_get_latest_rate(source, exchanged, file) ==
    LET hits == {i \in DOMAIN file : file[i].base = source}
    IN IF hits = {} THEN Raise("ProviderError")
       ELSE LET rates == file[CHOOSE i \in hits : \A j \in hits : i <= j].rates
            IN IF HasKey(rates, exchanged)
               THEN Ok(Dec(rates[exchanged[1]], Scale))
               ELSE Raise("KeyError")

\* A lookup that returns the last matching record of the file.
FileJsonAdapter_get_historical_rates_last(source, exchanged, date, file) ==
    LET hits == {i \in DOMAIN file :
                   file[i].date = date /\ file[i].base = source}
    IN IF hits = {} THEN Ok(None)
       ELSE Ok(file[CHOOSE i \in hits : \A j \in hits : i >= j])

FileJsonAdapter_get_historical_rates(source, exchanged, date, file) ==
    LET hits == {i \in DOMAIN file :
                   file[i].date = date /\ file[i].base = source}
    IN IF hits = {} THEN Ok(None)
       ELSE Ok(file[CHOOSE i \in hits : \A j \in hits : i <= j])

----------------------------------------------------------------------------
\* services.py: the per-provider fetch.

\* The if / elif / else on provider.resource_type and the constructor call:
\* the adapter class, ValueError for an unknown type, KeyError for a config
\* the constructor cannot read.
AdapterFor(p) ==
    IF p.resource_type = "http"
    THEN IF HttpJsonAdapter_init(p.config) THEN Ok("http") ELSE Raise("KeyError")
    ELSE IF p.resource_type = "json"
    THEN IF FileJsonAdapter_init(p.config) THEN Ok("json") ELSE Raise("KeyError")
    ELSE Raise("ValueError")

\* provider.force_base_currency and provider.force_base_currency != source
Forced(p, source) ==
    p.force_base_currency # "" /\ p.force_base_currency # source

\* The arguments of the one adapter request a per-provider fetch makes.
AdapterRequest(p, source, exchanged) ==
    IF Forced(p, source)
    THEN [base |-> p.force_base_currency, symbols |-> exchanged \o <<source>>]
    ELSE [base |-> source, symbols |-> exchanged]

get_latest_rate(cls, req, resource) ==
    IF cls = "http"
    THEN HttpJsonAdapter_get_latest_rate(req.base, req.symbols, resource)
    ELSE FileJsonAdapter_get_latest_rate(req.base, req.symbols, resource)

get_historical_rates(cls, req, date, resource) ==
    IF cls = "http"
    THEN HttpJsonAdapter_get_historical_rates(req.base, req.symbols, date, resource)
    ELSE FileJsonAdapter_get_historical_rates(req.base, req.symbols, date, resource)

\* The forced-base branch with the quotient taken the other way round.
LatestRebaseSwapped(source, exchanged, raw_data) ==
    IF raw_data.t # "map" THEN Raise("TypeError")
    ELSE IF source \notin DOMAIN raw_data.m THEN Raise("KeyError")
    ELSE IF ~HasKey(raw_data.m, exchanged) THEN Raise("KeyError")
    ELSE IF raw_data.m[source] = 0 THEN Raise("ZeroDivisionError")
    ELSE Ok(Dec(raw_data.m[exchanged[1]], raw_data.m[source]))

\* Decimal(raw_data[source] / raw_data[exchanged]) of the forced-base branch.
LatestRebase(source, exchanged, raw_data) ==
    IF raw_data.t # "map" THEN Raise("TypeError")
    ELSE IF source \notin DOMAIN raw_data.m THEN Raise("KeyError")
    ELSE IF ~HasKey(raw_data.m, exchanged) THEN Raise("KeyError")
    ELSE IF raw_data.m[exchanged[1]] = 0 THEN Raise("ZeroDivisionError")
    ELSE Ok(Dec(raw_data.m[source], raw_data.m[exchanged[1]]))

\* adapterResult is the outcome of the adapter request (see AdapterRequest).
get_latest_from_provider(p, source, exchanged, adapterResult) ==
    IF AdapterFor(p).k = "raise" THEN AdapterFor(p)
    ELSE IF adapterResult.k = "raise" THEN adapterResult
    ELSE IF Forced(p, source)
    THEN LatestRebase(source, exchanged, adapterResult.v)
    ELSE adapterResult

\* reverse_rates keeping the entry of source_currency_code (as 1.000000).
reverse_rates_keep_source(source, d) ==
    IF d.t = "none" THEN Raise("TypeError")
    ELSE IF d.t # "map" THEN Ok(Map(EmptyMap))
    ELSE IF source \notin DOMAIN d.m THEN Ok(Map(EmptyMap))
    ELSE IF d.m[source] = 0 THEN Raise("ZeroDivisionError")
    ELSE Ok(Map([c \in DOMAIN d.m |-> RoundDiv(d.m[c], d.m[source])]))

reverse_rates(source, d) ==
    IF d.t = "none" THEN Raise("TypeError")
    ELSE IF d.t # "map" THEN Ok(Map(EmptyMap))
    ELSE IF source \notin DOMAIN d.m THEN Ok(Map(EmptyMap))
    ELSE IF d.m[source] = 0 /\ DOMAIN d.m # {source}
    THEN Raise("ZeroDivisionError")
    ELSE Ok(Map([c \in DOMAIN d.m \ {source} |->
                   RoundDiv(d.m[c], d.m[source])]))

get_hist_from_provider(p, source, exchanged, adapterResult) ==
    IF AdapterFor(p).k = "raise" THEN AdapterFor(p)
    ELSE IF adapterResult.k = "raise" THEN adapterResult
    ELSE IF Forced(p, source) THEN reverse_rates(source, adapterResult.v)
    ELSE adapterResult

----------------------------------------------------------------------------
\* services.py: the orchestrator (fetch_latest_rates_from_provider and
\* fetch_historical_rates_from_provider).

NoResult == [k |-> "none"]
NoRequest == [base |-> "", symbols |-> <<>>]
Idle == [name |-> "idle", source |-> "", exchanged |-> <<>>, date |-> 0]

Row(s, e, d, r) ==
    [source_currency |-> s, exchanged_currency |-> e,
     valuation_date |-> d, rate_value |-> r]

\* The elements of a finite set of codes, as a sequence (the item order of
\* a rates dict, fixed by the resource).
RECURSIVE Items(_)
Items(S) ==
    IF S = {} THEN <<>>
    ELSE LET c == CHOOSE x \in S : TRUE IN <<c>> \o Items(S \ {c})

\* The exchanged_currency_code arguments of a call on source: a single
\* other code, or the comma-joined list of all other codes.
ExchangedArgs(source) ==
    {<<c>> : c \in Codes \ {source}} \cup {Items(Codes \ {source})}

\* A tail that creates a row for the first symbol of a rates mapping only.
PersistFirstOnly(source, exchanged, date, d, known) ==
    IF d.t = "none" THEN Ok(<<>>)
    ELSE IF d.t = "rec"
    THEN IF DOMAIN d.rates = {} THEN Ok(<<>>)
         ELSE IF source \notin known \/ ~(DOMAIN d.rates \subseteq known)
         THEN Raise("KeyError")
         ELSE LET syms == Items(DOMAIN d.rates)
              IN Ok(<<Row(source, syms[1], date, d.rates[syms[1]])>>)
    ELSE IF source \notin known THEN Raise("KeyError")
    ELSE IF ~(Len(exchanged) = 1 /\ exchanged[1] \in known) THEN Raise("KeyError")
    ELSE IF ~HasKey(d.m, exchanged) THEN Raise("KeyError")
    ELSE Ok(<<Row(source, exchanged[1], date, d.m[exchanged[1]])>>)

\* The tail of fetch_historical_rates_from_provider: the rows it creates
\* for the value d of data, or the KeyError of a failed lookup.
PersistRows(source, exchanged, date, d, known) ==
    IF d.t = "none" THEN Ok(<<>>)
    ELSE IF d.t = "rec"
    THEN IF DOMAIN d.rates = {} THEN Ok(<<>>)
         ELSE IF source \notin known \/ ~(DOMAIN d.rates \subseteq known)
         THEN Raise("KeyError")
         ELSE LET syms == Items(DOMAIN d.rates)
              IN Ok([i \in DOMAIN syms |->
                       Row(source, syms[i], date, d.rates[syms[i]])])
    ELSE IF source \notin known THEN Raise("KeyError")
    ELSE IF ~(Len(exchanged) = 1 /\ exchanged[1] \in known) THEN Raise("KeyError")
    ELSE IF ~HasKey(d.m, exchanged) THEN Raise("KeyError")
    ELSE Ok(<<Row(source, exchanged[1], date, d.m[exchanged[1]])>>)

\* A loop whose "if data: break" is missing.
NeverBreaks(d) == FALSE

\* if data: break
BreaksLoop(d) == Truthy(d)

\* An except clause that lets ProviderError through.
AbsorbedNone(e) == FALSE

\* A bare except clause.
AbsorbedAll(e) == TRUE

\* except ProviderError: log and continue
Absorbed(e) == e = "ProviderError"

Start(name, dates) ==
    /\ pc = "idle"
    /\ \E source \in Sources, date \in dates :
       \E exchanged \in ExchangedArgs(source) :
       \E ord \in OrderByPriority(providers) :
          /\ op' = [name |-> name, source |-> source,
                    exchanged |-> exchanged, date |-> date]
          /\ order' = ord
          /\ pc' = IF Len(ord) = 0 THEN "exit" ELSE "loop"
    /\ idx' = 1
    /\ data' = None
    /\ UNCHANGED <<providers, currencies, store, trail, raw, errlog, outcome,
                   twrrVars, adapterVars, periodVars>>

StartLatest == Start("latest", {0})
StartHist == Start("hist", FetchDays)

\* One pass of the for loop over provider p, get_*_from_provider having
\* ended as r after the adapter request req ended as ar.
LoopBody(p, req, ar, r) ==
    /\ trail' = Append(trail, [provider |-> p.name,
                                req |-> IF ar = NoResult THEN NoRequest ELSE req,
                                r |-> r])
    /\ raw' = ar
    /\ IF r.k = "ok"
       THEN /\ data' = r.v
            /\ pc' = IF BreaksLoop(r.v) \/ idx = Len(order) THEN "exit" ELSE "loop"
            /\ idx' = idx + 1
            /\ UNCHANGED <<errlog, outcome>>
       ELSE IF Absorbed(r.e)
       THEN /\ errlog' = Append(errlog, p.name)
            /\ pc' = IF idx = Len(order) THEN "exit" ELSE "loop"
            /\ idx' = idx + 1
            /\ UNCHANGED <<data, outcome>>
       ELSE /\ outcome' = r
            /\ pc' = "done"
            /\ UNCHANGED <<data, idx, errlog>>
    /\ UNCHANGED <<providers, currencies, store, op, order, twrrVars,
                   adapterVars, periodVars>>

LatestIter ==
    /\ pc = "loop" /\ op.name = "latest"
    /\ LET p == ProviderNamed(order[idx])
           req == AdapterRequest(p, op.source, op.exchanged)
       IN \E resource \in Resources(p) :
            LET ar == IF AdapterFor(p).k = "raise" THEN NoResult
                      ELSE get_latest_rate(AdapterFor(p).v, req, resource)
            IN LoopBody(p, req, ar,
                 get_latest_from_provider(p, op.source, op.exchanged, ar))

HistIter ==
    /\ pc = "loop" /\ op.name = "hist"
    /\ LET p == ProviderNamed(order[idx])
           req == AdapterRequest(p, op.source, op.exchanged)
       IN \E resource \in Resources(p) :
            LET ar == IF AdapterFor(p).k = "raise" THEN NoResult
                      ELSE get_historical_rates(AdapterFor(p).v, req, op.date,
                                                resource)
            IN LoopBody(p, req, ar,
                 get_hist_from_provider(p, op.source, op.exchanged, ar))

\* A return that also stores the rate it returns.
LatestReturnStoring ==
    /\ pc = "exit" /\ op.name = "latest"
    /\ outcome' = Ok(data)
    /\ pc' = "done"
    /\ store' = Append(store, Row(op.source, op.exchanged[1], 0, 0))
    /\ UNCHANGED <<providers, currencies, op, order, idx, data, trail,
                   raw, errlog, twrrVars, adapterVars, periodVars>>

\* return data
LatestReturn ==
    /\ pc = "exit" /\ op.name = "latest"
    /\ outcome' = Ok(data)
    /\ pc' = "done"
    /\ UNCHANGED <<providers, currencies, store, op, order, idx, data, trail,
                   raw, errlog, twrrVars, adapterVars, periodVars>>

\* A tail that writes no row for a (source, exchanged, date) key the store
\* already holds.
HistPersistUnique ==
    /\ pc = "exit" /\ op.name = "hist"
    /\ LET w == PersistRows(op.source, op.exchanged, op.date, data, currencies)
           Fresh(row) ==
              \A i \in DOMAIN store :
                 \/ store[i].source_currency # row.source_currency
                 \/ store[i].exchanged_currency # row.exchanged_currency
                 \/ store[i].valuation_date # row.valuation_date
       IN IF w.k = "ok"
          THEN /\ store' = store \o SelectSeq(w.v, Fresh)
               /\ outcome' = Ok(data)
          ELSE /\ outcome' = w
               /\ UNCHANGED store
    /\ pc' = "done"
    /\ UNCHANGED <<providers, currencies, op, order, idx, data, trail,
                   raw, errlog, twrrVars, adapterVars, periodVars>>

\* A persistence that creates its row before it reads the rate: the row
\* stays when the lookup fails.
HistPersistEager ==
    /\ pc = "exit" /\ op.name = "hist"
    /\ LET w == PersistRows(op.source, op.exchanged, op.date, data, currencies)
       IN IF w.k = "ok"
          THEN /\ store' = store \o w.v
               /\ outcome' = Ok(data)
          ELSE /\ outcome' = w
               /\ store' = Append(store,
                              Row(op.source, op.exchanged[1], op.date, 0))
    /\ pc' = "done"
    /\ UNCHANGED <<providers, currencies, op, order, idx, data, trail,
                   raw, errlog, twrrVars, adapterVars, periodVars>>

\* if data is not None: ... create rows ...; return data
HistPersist ==
    /\ pc = "exit" /\ op.name = "hist"
    /\ LET w == PersistRows(op.source, op.exchanged, op.date, data, currencies)
       IN IF w.k = "ok"
          THEN /\ store' = store \o w.v
               /\ outcome' = Ok(data)
          ELSE /\ outcome' = w
               /\ UNCHANGED store
    /\ pc' = "done"
    /\ UNCHANGED <<providers, currencies, op, order, idx, data, trail,
                   raw, errlog, twrrVars, adapterVars, periodVars>>

OrchIdle ==
    /\ pc = "idle" /\ op = Idle /\ order = <<>> /\ idx = 1 /\ data = None
    /\ trail = <<>> /\ raw = NoResult /\ errlog = <<>>
    /\ outcome = NoResult
TwrrIdle == series = <<>> /\ amount = 0 /\ twrr = NoResult
AdapterIdle == call = Idle /\ answer = NoResult
\* get_weighted_ror not called: no frame.
RorIdle ==
    [pc |-> "idle", amount |-> 0, start_date |-> None, today |-> None,
     dt |-> None, historical_rates |-> <<>>, calls |-> <<>>]
\* No request of the rate list in progress. last is the request served
\* before, and whether its back-fill wrote rows.
NoRequestYet == [source |-> "", date_from |-> 0, date_to |-> 0, wrote |-> FALSE]
ViewIdle(last) ==
    [pc |-> "idle", source |-> "", others |-> <<>>, date_from |-> 0,
     date_to |-> 0, dt |-> 0, period_rates |-> <<>>, calls |-> <<>>,
     answers |-> <<>>, before |-> <<>>, last |-> last]
PeriodIdle ==
    /\ query = Idle /\ period = NoResult
    /\ ror = RorIdle /\ weighted = NoResult
    /\ view = ViewIdle(NoRequestYet) /\ reply = NoResult

Init ==
    /\ providers \in ProviderTables
    /\ currencies = Codes
    /\ store = <<>>
    /\ OrchIdle /\ TwrrIdle /\ PeriodIdle /\ AdapterIdle

Next ==
    \/ StartLatest
    \/ StartHist
    \/ LatestIter
    \/ HistIter
    \/ LatestReturn
    \/ HistPersist

Spec == Init /\ [][Next]_vars

----------------------------------------------------------------------------
\* Properties of the orchestrator (specification Spec).

Range(f) == {f[i] : i \in DOMAIN f}
Prio(n) == ProviderNamed(n).priority
ProviderError == Raise("ProviderError")
TruthyResult(r) == r.k = "ok" /\ Truthy(r.v)
\* The rows of a historical result can be written: every lookup resolves.
Persistable(d) ==
    op.name = "hist" =>
        PersistRows(op.source, op.exchanged, op.date, d, currencies).k = "ok"

\* C1: when the provider with the lowest priority number raises
\* ProviderError, the failure is logged and the loop goes on to the next
\* provider; if that one returns valid non-empty data the call returns
\* exactly that data; ProviderError never reaches the caller.
C1_Fallback ==
    /\ (pc = "done" /\ outcome.k = "raise") => outcome.e # "ProviderError"
    /\ \A i \in DOMAIN trail :
         trail[i].r = ProviderError =>
            /\ trail[i].provider \in Range(errlog)
            /\ i < Len(order) => (Len(trail) > i \/ (pc = "loop" /\ idx = i + 1))
    /\ (/\ pc = "done" /\ Len(trail) >= 2
        /\ \A p \in providers : Prio(trail[1].provider) <= p.priority
        /\ trail[1].r = ProviderError
        /\ TruthyResult(trail[2].r)
        /\ Persistable(trail[2].r.v))
       => outcome = Ok(trail[2].r.v)

C1_Witness ==
    /\ pc = "done" /\ op.name = "hist" /\ Len(trail) = 2
    /\ Prio(trail[1].provider) < Prio(trail[2].provider)
    /\ trail[1].r = ProviderError /\ errlog = <<trail[1].provider>>
    /\ TruthyResult(trail[2].r) /\ outcome = Ok(trail[2].r.v)
    /\ store # <<>>

\* C2: if every provider raises ProviderError or returns an empty / falsy
\* result, the call returns an absent or empty result and no exception
\* escapes.
C2_Exhaustion ==
    (/\ pc = "done" /\ Len(trail) = Len(order)
     /\ \A i \in DOMAIN trail :
          trail[i].r = ProviderError \/ (trail[i].r.k = "ok" /\ ~Truthy(trail[i].r.v)))
    => (outcome.k = "ok" /\ ~Truthy(outcome.v))

\* C3: providers are invoked in ascending order of priority, each at most
\* once, and the loop stops at the first truthy result, which is the one
\* returned: no provider is invoked after it.
C3_Order ==
    /\ \A i \in DOMAIN trail : trail[i].provider = order[i]
    /\ \A i, j \in DOMAIN trail :
         i < j => /\ trail[i].provider # trail[j].provider
                  /\ Prio(trail[i].provider) <= Prio(trail[j].provider)
    /\ \A i \in DOMAIN trail :
         TruthyResult(trail[i].r) => i = Len(trail) /\ pc \in {"exit", "done"}
    /\ (/\ pc = "done" /\ outcome.k = "ok" /\ Len(trail) > 0
        /\ TruthyResult(trail[Len(trail)].r))
       => outcome.v = trail[Len(trail)].r.v

C3_Witness ==
    /\ pc = "done" /\ Len(order) = 2 /\ Len(trail) = 1
    /\ Prio(order[1]) < Prio(order[2])
    /\ TruthyResult(trail[1].r) /\ outcome = Ok(trail[1].r.v)

\* C4: a provider of unknown resource_type ends its fetch with ValueError,
\* a provider whose config the adapter constructor cannot read with
\* KeyError, and any failure other than ProviderError ends the whole call
\* with that error: it is the last pass and nothing is written.
C4_FatalPropagates ==
    \A i \in DOMAIN trail :
      LET p == ProviderNamed(trail[i].provider) IN
        /\ p.resource_type \notin {"http", "json"} => trail[i].r = Raise("ValueError")
        /\ (p.resource_type = "http" /\ ~(HttpPaths \subseteq p.config))
              => trail[i].r = Raise("KeyError")
        /\ (trail[i].r.k = "raise" /\ trail[i].r # ProviderError)
              => /\ i = Len(trail) /\ pc = "done"
                 /\ outcome = trail[i].r /\ store = <<>>

C4_Witness ==
    /\ pc = "done" /\ outcome = Raise("ValueError")
    /\ Len(trail) = 1 /\ Len(order) = 2
    /\ ProviderNamed(order[1]).resource_type = "csv"

\* The last pass of the loop went through the forced-base branch and its
\* adapter request was answered with a rates mapping.
ForcedPass(name) ==
    /\ op.name = name /\ Len(trail) > 0
    /\ Forced(ProviderNamed(trail[Len(trail)].provider), op.source)
    /\ raw.k = "ok" /\ raw.v.t = "map"

\* C5: fetch_latest on a provider whose force_base_currency is set and
\* differs from source_code makes its adapter request on the forced base
\* for exchanged_code and source_code joined, and when the answer holds a
\* rate for both (a non-zero one for exchanged_code) returns the scalar
\* rate[source_code] / rate[exchanged_code].
C5_LatestRebase ==
    ForcedPass("latest") =>
      LET last == trail[Len(trail)]
          p == ProviderNamed(last.provider)
          m == raw.v.m
      IN /\ last.req = [base |-> p.force_base_currency,
                        symbols |-> op.exchanged \o <<op.source>>]
         /\ (/\ op.source \in DOMAIN m /\ HasKey(m, op.exchanged)
             /\ m[op.exchanged[1]] # 0)
            => last.r = Ok(Dec(m[op.source], m[op.exchanged[1]]))

\* Forced base EUR, source USD, exchanged GBP, raw {USD: 1.1, GBP: 0.9}:
\* the call returns 1.1 / 0.9, which is 1.222222 to six places.
C5_Witness ==
    /\ pc = "done" /\ ForcedPass("latest")
    /\ ProviderNamed(trail[Len(trail)].provider).force_base_currency = "EUR"
    /\ op.source = "USD" /\ op.exchanged = <<"GBP">>
    /\ raw.v.m = [c \in {"USD", "GBP"} |-> IF c = "USD" THEN 1100000 ELSE 900000]
    /\ outcome = Ok(Dec(1100000, 900000))
    /\ RoundDiv(outcome.v.num, outcome.v.den) = 1222222

\* The forced-base branch of a historical fetch was answered with a rates
\* mapping holding a non-zero rate for source_code, and returned.
ReversedPass ==
    /\ ForcedPass("hist")
    /\ op.source \in DOMAIN raw.v.m /\ raw.v.m[op.source] # 0
    /\ trail[Len(trail)].r.k = "ok"

\* C6, as claimed: the historical forced-base result holds, for every code
\* c of the adapter's result except the forced base,
\* reversed[c] = round(raw[c] / raw[source_code], 6).
C6_Original ==
    ReversedPass =>
      LET p == ProviderNamed(trail[Len(trail)].provider)
          rev == trail[Len(trail)].r.v.m
          m == raw.v.m
      IN \A c \in DOMAIN m \ {p.force_base_currency} :
            c \in DOMAIN rev /\ rev[c] = RoundDiv(m[c], m[op.source])

\* C6, amended: the historical forced-base result holds, for every code c
\* of the adapter's result except source_code,
\* reversed[c] = round(raw[c] / raw[source_code], 6), and no other entry.
C6_ReverseRates ==
    ReversedPass =>
      LET rev == trail[Len(trail)].r.v.m
          m == raw.v.m
      IN /\ DOMAIN rev = DOMAIN m \ {op.source}
         /\ \A c \in DOMAIN rev : rev[c] = RoundDiv(m[c], m[op.source])

C6_Witness ==
    /\ pc = "done" /\ ReversedPass
    /\ op.source = "USD" /\ op.exchanged = <<"GBP">>
    /\ raw.v.m = [c \in Codes |-> IF c = "USD" THEN 1100000 ELSE 900000]
    /\ outcome = Ok(Map([c \in {"EUR", "GBP"} |-> 818182]))

\* C7: after a successful historical fetch the rows added are: for a
\* result with a rates mapping, exactly one per symbol of the mapping, of
\* source_currency source, valuation_date date and the symbol's rate;
\* otherwise exactly one, for (source, exchanged), with the result's rate
\* for exchanged.
C7_Persist ==
    (pc = "done" /\ op.name = "hist" /\ TruthyResult(outcome)) =>
      IF outcome.v.t = "rec"
      THEN /\ Len(store) = Cardinality(DOMAIN outcome.v.rates)
           /\ \A c \in DOMAIN outcome.v.rates :
                \E i \in DOMAIN store :
                   store[i] = Row(op.source, c, op.date, outcome.v.rates[c])
      ELSE store = <<Row(op.source, op.exchanged[1], op.date,
                         outcome.v.m[op.exchanged[1]])>>

C7_Witness ==
    /\ pc = "done" /\ op.name = "hist" /\ TruthyResult(outcome)
    /\ outcome.v.t = "rec" /\ Len(store) = 2
    /\ store[1].exchanged_currency # store[2].exchanged_currency

C7_WitnessScalar ==
    /\ pc = "done" /\ op.name = "hist" /\ TruthyResult(outcome)
    /\ outcome.v.t = "map" /\ Len(store) = 1

----------------------------------------------------------------------------
\* services.py: calculate_twrr.
\*
\* A rate_value is a Decimal, here a natural number of some unit (only the
\* quotients of rates enter the result). total_return is kept as the exact
\* fraction num / den; the code keeps it as a Decimal of 28 significant
\* digits, which rounds to the same 6 places for the inputs drawn here.

Point(d, r) == [valuation_date |-> d, rate_value |-> r]
TwrrPoint(d, r, t) == [date |-> d, rate_value |-> r, twrr |-> t]

\* Decimal division by zero: x / 0 raises DivisionByZero, a
\* ZeroDivisionError; 0 / 0 raises InvalidOperation, which is not one.
DecimalDivError(numerator) ==
    IF numerator = 0 THEN Raise("InvalidOperation") ELSE Raise("ZeroDivisionError")

\* The for loop from index i on, total_return being num / den and
\* twrr_values being acc. A point is subscripted with "rate_value" and
\* "valuation_date": None cannot be subscripted (TypeError) and a dict
\* without the key raises KeyError.
RECURSIVE TwrrLoop(_, _, _, _, _, _)
TwrrLoop(h, amt, i, num, den, acc) ==
    IF i > Len(h) THEN Ok(acc)
    ELSE IF h[i - 1] = None \/ h[i] = None THEN Raise("TypeError")
    ELSE IF "rate_value" \notin DOMAIN h[i - 1] \/ "rate_value" \notin DOMAIN h[i]
    THEN Raise("KeyError")
    ELSE LET previous_rate == h[i - 1].rate_value
             current_rate == h[i].rate_value
         IN IF previous_rate = 0 THEN DecimalDivError(current_rate)
            ELSE IF "valuation_date" \notin DOMAIN h[i] THEN Raise("KeyError")
            ELSE TwrrLoop(h, amt, i + 1, num * current_rate, den * previous_rate,
                    Append(acc, TwrrPoint(h[i].valuation_date, current_rate,
                                  RoundDiv(num * current_rate * amt,
                                           den * previous_rate))))

\* A loop that values each day by its own daily_return, total_return
\* never accumulating.
RECURSIVE TwrrDailyLoop(_, _, _, _)
TwrrDailyLoop(h, amt, i, acc) ==
    IF i > Len(h) THEN Ok(acc)
    ELSE IF h[i - 1].rate_value = 0 THEN DecimalDivError(h[i].rate_value)
    ELSE TwrrDailyLoop(h, amt, i + 1,
            Append(acc, TwrrPoint(h[i].valuation_date, h[i].rate_value,
                          RoundDiv(h[i].rate_value * amt, h[i - 1].rate_value))))
calculate_twrr_daily(h, amt) == TwrrDailyLoop(h, amt, 2, <<>>)

\* A loop that stops at a zero previous rate instead of dividing by it.
RECURSIVE TwrrGuardedLoop(_, _, _, _, _, _)
TwrrGuardedLoop(h, amt, i, num, den, acc) ==
    IF i > Len(h) \/ h[i - 1].rate_value = 0 THEN Ok(acc)
    ELSE TwrrGuardedLoop(h, amt, i + 1, num * h[i].rate_value,
            den * h[i - 1].rate_value,
            Append(acc, TwrrPoint(h[i].valuation_date, h[i].rate_value,
                          RoundDiv(num * h[i].rate_value * amt,
                                   den * h[i - 1].rate_value))))
calculate_twrr_guarded(h, amt) == TwrrGuardedLoop(h, amt, 2, 1, 1, <<>>)

calculate_twrr(h, amt) == TwrrLoop(h, amt, 2, 1, 1, <<>>)

\* The inputs: chronological series of at most MaxLen points, point i
\* dated day i, and an amount.
TwrrRates == 0 .. MaxRate
Amounts == {1, 100}
SeriesOf(rates) == [i \in DOMAIN rates |-> Point(i, rates[i])]
AllSeries ==
    UNION {{SeriesOf(rates) : rates \in [1 .. n -> TwrrRates]} : n \in 0 .. MaxLen}

Calculate ==
    /\ twrr = NoResult
    /\ twrr' = calculate_twrr(series, amount)
    /\ UNCHANGED <<providers, currencies, store, orchVars, series, amount,
                   periodVars, adapterVars>>

InitTwrr ==
    /\ providers = {} /\ currencies = Codes /\ store = <<>>
    /\ OrchIdle /\ PeriodIdle /\ AdapterIdle
    /\ series \in AllSeries /\ amount \in Amounts /\ twrr = NoResult

NextTwrr == Calculate

SpecTwrr == InitTwrr /\ [][NextTwrr]_vars

----------------------------------------------------------------------------
\* Properties of calculate_twrr (specification SpecTwrr).

\* The product of rate[i] / rate[i-1] for i in 1..k (0-based), as the
\* fraction of ProdNum and ProdDen.
RECURSIVE ProdNum(_, _)
ProdNum(h, k) == IF k = 0 THEN 1 ELSE h[k + 1].rate_value * ProdNum(h, k - 1)
RECURSIVE ProdDen(_, _)
ProdDen(h, k) == IF k = 0 THEN 1 ELSE h[k].rate_value * ProdDen(h, k - 1)

\* No rate_value is used as a zero divisor: none but the last is zero.
NoZeroDivisor(h) == \A i \in DOMAIN h : i < Len(h) => h[i].rate_value # 0
HasZero(h) == \E i \in DOMAIN h : h[i].rate_value = 0

\* C8: on n points calculate_twrr returns an empty sequence when n is 0 or
\* 1, and for n >= 2 with valid rates exactly n-1 points in input order,
\* the k-th with the date and rate_value of input point k and
\* twrr = round(amount * product(rate[i]/rate[i-1] for i in 1..k), 6).
C8_Twrr ==
    (twrr # NoResult /\ NoZeroDivisor(series)) =>
      /\ twrr.k = "ok"
      /\ Len(twrr.v) = IF Len(series) <= 1 THEN 0 ELSE Len(series) - 1
      /\ \A k \in DOMAIN twrr.v :
           /\ twrr.v[k].date = series[k + 1].valuation_date
           /\ twrr.v[k].rate_value = series[k + 1].rate_value
           /\ twrr.v[k].twrr =
                 RoundDiv(amount * ProdNum(series, k), ProdDen(series, k))

\* Rates 2, 3, 1 and amount 100: 150.000000, then 50.000000.
C8_Witness ==
    /\ twrr # NoResult /\ amount = 100
    /\ series = SeriesOf(<<2, 3, 1>>)
    /\ twrr = Ok(<<TwrrPoint(2, 3, 150000000), TwrrPoint(3, 1, 50000000)>>)

----------------------------------------------------------------------------
\* services.py: the period aggregator (get_db_rates, process_db_rates,
\* get_currency_rates_for_period).

\* The (source, exchanged) pairs of the rows a period query finds stored:
\* rows are written by fetch_historical_rates_from_provider under the
\* source code of its call, whatever that code is (tasks.py fetches every
\* ordered pair of currencies).
StoredPairs ==
    {<<"EUR", "USD">>, <<"EUR", "GBP">>, <<"USD", "EUR">>, <<"GBP", "USD">>}
StoreRows ==
    UNION {{Row(p[1], p[2], d, r) : d \in Days, r \in RatesOf(p[2])} :
           p \in StoredPairs}
\* The table has no uniqueness constraint: a pair may be stored twice for
\* one date.
Stores == UNION {[1 .. n -> StoreRows] : n \in 0 .. MaxRows}

\* valuation_date.strftime("%Y-%m-%d") is a string, valuation_date a date.
DateStr(d) == [t |-> "str", d |-> d]
DateObj(d) == [t |-> "date", d |-> d]
RateMap(date, rates) == [date |-> date, rates |-> rates]

\* A query that filters on the date range only, whatever the source.
get_db_rates_all(source, exchanged, date_from, date_to, table) ==
    LET Selected(row) ==
            row.valuation_date >= date_from /\ row.valuation_date <= date_to
    IN SelectSeq(table, Selected)

\* A query without the filter on the date range.
get_db_rates_unbounded(source, exchanged, date_from, date_to, table) ==
    LET Selected(row) ==
            source = "EUR" =>
               /\ row.source_currency = source
               /\ exchanged = <<row.exchanged_currency>>
    IN SelectSeq(table, Selected)

\* The rows the queryset selects, in table order.
get_db_rates(source, exchanged, date_from, date_to, table) ==
    LET Selected(row) ==
            /\ row.valuation_date >= date_from
            /\ row.valuation_date <= date_to
            /\ source = "EUR" =>
                  /\ row.source_currency = source
                  /\ exchanged = <<row.exchanged_currency>>
    IN SelectSeq(table, Selected)

\* A delivery in any order, valuation_date not sorted.
OrderedAny(rows) ==
    LET n == Len(rows)
        Shuffling == {f \in [1 .. n -> 1 .. n] :
                        \A i, j \in 1 .. n : i # j => f[i] # f[j]}
    IN {[i \in 1 .. n |-> rows[f[i]]] : f \in Shuffling}

\* Meta.ordering: the orders in which the database may deliver rows, sorted
\* by valuation_date, rows of one date in any order.
Ordered(rows) ==
    LET n == Len(rows)
        Sorting == {f \in [1 .. n -> 1 .. n] :
                      /\ \A i, j \in 1 .. n : i # j => f[i] # f[j]
                      /\ \A i, j \in 1 .. n :
                           i < j => rows[f[i]].valuation_date
                                       <= rows[f[j]].valuation_date}
    IN {[i \in 1 .. n |-> rows[f[i]]] : f \in Sorting}

\* The keys of rates_grouped_by_date in insertion order: the dates of the
\* rows, each at its first occurrence.
RECURSIVE GroupDates(_, _)
GroupDates(rows, seen) ==
    IF rows = <<>> THEN <<>>
    ELSE IF Head(rows).valuation_date \in seen THEN GroupDates(Tail(rows), seen)
    ELSE <<Head(rows).valuation_date>>
            \o GroupDates(Tail(rows), seen \cup {Head(rows).valuation_date})

GroupOf(rows, d) ==
    LET OfDate(row) == row.valuation_date = d IN SelectSeq(rows, OfDate)

\* A dict comprehension over the rows of keys: a later row replaces an
\* earlier one of the same code.
LastOf(rates, c) ==
    rates[CHOOSE i \in DOMAIN rates :
            /\ rates[i].exchanged_currency = c
            /\ \A j \in DOMAIN rates :
                  j > i => rates[j].exchanged_currency # c]

\* The RateMap of one date group for source EUR.
EurRateMap(valuation_date, rates) ==
    Ok(RateMap(DateStr(valuation_date),
               [c \in {rates[i].exchanged_currency : i \in DOMAIN rates} |->
                   LastOf(rates, c).rate_value]))

\* A rebasing that synthesizes no EUR entry.
RebasedRateMapNoEur(valuation_date, rates, source) ==
    LET bases == {i \in DOMAIN rates : rates[i].exchanged_currency = source}
        others == {i \in DOMAIN rates : rates[i].exchanged_currency # source}
    IN IF bases = {} THEN Raise("ValueError")
       ELSE LET b == rates[CHOOSE i \in bases : \A j \in bases : i <= j].rate_value
            IN IF b = 0 THEN Raise("ZeroDivisionError")
               ELSE Ok(RateMap(DateObj(valuation_date),
                       [c \in {rates[i].exchanged_currency : i \in others} |->
                           RoundDiv(rates[CHOOSE i \in others :
                                       rates[i].exchanged_currency = c].rate_value,
                                    b)]))

\* A rebasing that answers a group without base row with an empty RateMap.
RebasedRateMapLenient(valuation_date, rates, source) ==
    LET bases == {i \in DOMAIN rates : rates[i].exchanged_currency = source}
    IN IF bases = {}
       THEN Ok(RateMap(DateObj(valuation_date), [c \in {} |-> 0]))
       ELSE LET b == rates[CHOOSE i \in bases : \A j \in bases : i <= j].rate_value
            IN IF b = 0 THEN Raise("ZeroDivisionError")
               ELSE Ok(RateMap(DateObj(valuation_date),
                               [c \in {"EUR"} |-> RoundDiv(Scale, b)]))

\* The RateMap of one date group for another source, or the error the
\* group raises.
RebasedRateMap(valuation_date, rates, source) ==
    LET bases == {i \in DOMAIN rates : rates[i].exchanged_currency = source}
        others == {i \in DOMAIN rates : rates[i].exchanged_currency # source}
    IN IF bases = {} THEN Raise("ValueError")
       ELSE LET base_rate == rates[CHOOSE i \in bases : \A j \in bases : i <= j]
                b == base_rate.rate_value
            IN IF b = 0
               THEN IF others = {} THEN DecimalDivError(Scale)
                    ELSE DecimalDivError(
                            rates[CHOOSE i \in others :
                                     \A j \in others : i <= j].rate_value)
               ELSE Ok(RateMap(DateObj(valuation_date),
                       [c \in {rates[i].exchanged_currency : i \in others}
                                 \cup {"EUR"} |->
                           IF c = "EUR" THEN RoundDiv(Scale, b)
                           ELSE RoundDiv(LastOf(rates, c).rate_value, b)]))

\* The loop over the date groups: result so far acc, or the first error.
RECURSIVE ProcessLoop(_, _, _, _)
ProcessLoop(dates, rows, source, acc) ==
    IF dates = <<>> THEN Ok(acc)
    ELSE LET rates == GroupOf(rows, Head(dates))
             entry == IF source = "EUR" THEN EurRateMap(Head(dates), rates)
                      ELSE RebasedRateMap(Head(dates), rates, source)
         IN IF entry.k = "raise" THEN entry
            ELSE ProcessLoop(Tail(dates), rows, source, Append(acc, entry.v))

process_db_rates(db_rates, source, exchanged) ==
    ProcessLoop(GroupDates(db_rates, {}), db_rates, source, <<>>)

\* The outcomes of a call on the table, one per order of delivery.
get_currency_rates_for_period(source, exchanged, date_from, date_to, table) ==
    {IF db_rates # <<>> THEN process_db_rates(db_rates, source, exchanged)
     ELSE Ok(<<>>) :
       db_rates \in Ordered(get_db_rates(source, exchanged, date_from, date_to,
                                         table))}

Query(source, exchanged, date_from, date_to) ==
    [name |-> "period", source |-> source, exchanged |-> exchanged,
     date_from |-> date_from, date_to |-> date_to]

GetPeriod ==
    /\ period = NoResult /\ ror.pc = "idle"
    /\ \E source \in Sources, date_from \in Days, date_to \in Days :
         \E exchanged \in ExchangedArgs(source) :
            /\ query' = Query(source, exchanged, date_from, date_to)
            /\ period' \in get_currency_rates_for_period(
                              source, exchanged, date_from, date_to, store)
    /\ UNCHANGED <<providers, currencies, store, orchVars, twrrVars,
                   adapterVars, viewVars, ror,
                   weighted>>

\* services.py: get_weighted_ror.

\* start_date is a datetime (dateutil's parse), today the string
\* datetime.today().strftime("%Y-%m-%d"); the DateField of the range
\* filter accepts either and keeps the day.
DateTime(d) == [t |-> "datetime", d |-> d]
ToDate(v) == v.d

\* a <= b: ordered within one type, TypeError between a datetime and a str.
PyLessEq(a, b) == IF a.t = b.t THEN Ok(a.d <= b.d) ELSE Raise("TypeError")

\* What a call of fetch_historical_rates_from_provider on (source,
\* exchanged) may answer the back-fill loop: nothing, or the rates it stored.
HistAnswers(source, exchanged) ==
    {None} \cup {Map([c \in {exchanged[1]} |-> r]) : r \in RatesOf(exchanged[1])}

\* Lines 401-409: today, the period series, and where the call goes next.
RorStart ==
    /\ period = NoResult /\ ror.pc = "idle"
    /\ \E source \in Sources, amt \in Amounts, start \in Days, now \in Days :
         \E exchanged \in {<<c>> : c \in Codes \ {source}} :
            LET start_date == DateTime(start)
                today == DateStr(now)
            IN /\ query' = Query(source, exchanged, ToDate(start_date),
                                 ToDate(today))
               /\ period' \in get_currency_rates_for_period(
                                 source, exchanged, ToDate(start_date),
                                 ToDate(today), store)
               /\ ror' = [pc |-> IF period'.k = "raise" THEN "done"
                                 ELSE IF period'.v = <<>> THEN "loop"
                                 ELSE "twrr",
                          amount |-> amt, start_date |-> start_date,
                          today |-> today, dt |-> start_date,
                          historical_rates |->
                             IF period'.k = "ok" THEN period'.v ELSE <<>>,
                          calls |-> <<>>]
               /\ weighted' = IF period'.k = "raise" THEN period' ELSE NoResult
    /\ UNCHANGED <<providers, currencies, store, orchVars, twrrVars,
                   adapterVars, viewVars>>

\* Lines 410-417: the test of the while loop and one pass of its body.
RorLoop ==
    /\ ror.pc = "loop"
    /\ LET test == PyLessEq(ror.dt, ror.today)
       IN IF test.k = "raise"
          THEN /\ ror' = [ror EXCEPT !.pc = "done"]
               /\ weighted' = test
               /\ UNCHANGED store
          ELSE IF test.v
          THEN \E rates \in HistAnswers(query.source, query.exchanged) :
                 /\ ror' = [ror EXCEPT
                       !.historical_rates = Append(@, rates),
                       !.calls = Append(@, ror.dt.d),
                       !.dt = DateTime(ror.dt.d + 1)]
                 /\ store' = IF rates = None THEN store
                             ELSE Append(store,
                                    Row(query.source, query.exchanged[1],
                                        ror.dt.d, rates.m[query.exchanged[1]]))
                 /\ UNCHANGED weighted
          ELSE /\ ror' = [ror EXCEPT !.pc = "twrr"]
               /\ UNCHANGED <<store, weighted>>
    /\ UNCHANGED <<providers, currencies, orchVars, twrrVars, adapterVars,
                   query, period, viewVars>>

\* Lines 418-426: calculate_twrr on the series, and the result.
RorReturn ==
    /\ ror.pc = "twrr"
    /\ LET twrrs == calculate_twrr(ror.historical_rates, ror.amount)
       IN weighted' =
             IF twrrs.k = "raise" THEN twrrs
             ELSE Ok([base |-> query.source, exchanged |-> query.exchanged,
                      amount |-> ror.amount, start_date |-> ror.start_date,
                      twrr |-> twrrs.v])
    /\ ror' = [ror EXCEPT !.pc = "done"]
    /\ UNCHANGED <<providers, currencies, store, orchVars, twrrVars,
                   adapterVars, viewVars, query,
                   period>>

InitPeriod ==
    /\ providers = {} /\ currencies = Codes /\ store \in Stores
    /\ OrchIdle /\ TwrrIdle /\ PeriodIdle /\ AdapterIdle

NextPeriod ==
    \/ GetPeriod
    \/ RorStart
    \/ RorLoop
    \/ RorReturn

SpecPeriod == InitPeriod /\ [][NextPeriod]_vars

----------------------------------------------------------------------------
\* Properties of the period aggregator (specification SpecPeriod).

\* The stored rows of the pair (EUR, exchanged code of the query) dated d.
StoredEur(d) ==
    {i \in DOMAIN store :
       /\ store[i].source_currency = "EUR"
       /\ query.exchanged = <<store[i].exchanged_currency>>
       /\ store[i].valuation_date = d}
InQueryRange(d) == query.date_from <= d /\ d <= query.date_to

\* C10: for source_code EUR get_currency_rates_for_period returns exactly
\* one RateMap per date of [date_from, date_to] that has a stored row of
\* source EUR and exchanged currency exchanged_code, none for another
\* date, and the RateMap holds for exchanged_code, and for nothing else, the
\* rate_value of such a stored row, unchanged.
C10_EurPeriod ==
    (period # NoResult /\ query.source = "EUR") =>
      /\ period.k = "ok"
      /\ \A i \in DOMAIN period.v : period.v[i].date.d \in Days
      /\ \A d \in Days :
           Cardinality({i \in DOMAIN period.v : period.v[i].date.d = d})
              = IF InQueryRange(d) /\ StoredEur(d) # {} THEN 1 ELSE 0
      /\ \A i \in DOMAIN period.v :
           /\ DOMAIN period.v[i].rates = {query.exchanged[1]}
           /\ period.v[i].rates[query.exchanged[1]] \in
                 {store[j].rate_value : j \in StoredEur(period.v[i].date.d)}

\* One RateMap for the date in range; the store also holds a row of
\* another exchanged currency in range.
C10_Witness ==
    /\ period # NoResult /\ query.source = "EUR" /\ period.k = "ok"
    /\ query.exchanged = <<"USD">>
    /\ period.v = <<RateMap(DateStr(1), [c \in {"USD"} |-> 1100000])>>
    /\ \E j \in DOMAIN store :
          /\ store[j].exchanged_currency = "GBP"
          /\ store[j].source_currency = "EUR"
          /\ InQueryRange(store[j].valuation_date)

\* The stored rows of the date group d of a query on another source than
\* EUR, and those of them that hold a rate of currency c.
GroupRows(d) ==
    {i \in DOMAIN store : store[i].valuation_date = d /\ InQueryRange(d)}
GroupRowsOf(d, c) == {i \in GroupRows(d) : store[i].exchanged_currency = c}
GroupCodes(d) == {store[i].exchanged_currency : i \in GroupRows(d)}
Rebased(d, c, b) ==
    {RoundDiv(store[i].rate_value, b) : i \in GroupRowsOf(d, c)}

C12_Denominator ==
    (period # NoResult /\ period.k = "ok" /\ query.source # "EUR") =>
      \A k \in DOMAIN period.v :
         \E j \in GroupRowsOf(period.v[k].date.d, query.source) :
            /\ store[j].source_currency = "EUR"
            /\ store[j].rate_value # 0
            /\ period.v[k].rates["EUR"] = RoundDiv(Scale, store[j].rate_value)

\* A date of the range has stored rows, none of them a rate of source_code.
MissingBase ==
    \E d \in Days : GroupRows(d) # {} /\ GroupRowsOf(d, query.source) = {}
ZeroBase ==
    \E d \in Days : \E j \in GroupRowsOf(d, query.source) :
       store[j].rate_value = 0

\* C13: for a non-EUR source_code, if a date of the range has stored rows
\* but none whose exchanged currency is source_code, the whole query fails:
\* an error is raised and no series, partial or not, is returned. The
\* error is the ValueError of the missing base rate, unless the group of a
\* date has a zero base rate, whose division error may come first.
C13_MissingBase ==
    (period # NoResult /\ query.source # "EUR" /\ MissingBase) =>
      /\ period.k = "raise"
      /\ period.e \in {"ValueError", "ZeroDivisionError", "InvalidOperation"}
      /\ ~ZeroBase => period = Raise("ValueError")

\* Day 1 has its base rate, day 2 has not: no RateMap for day 1 either.
C13_Witness ==
    /\ period = Raise("ValueError") /\ query.source = "USD"
    /\ query.date_from = 1 /\ query.date_to = 2
    /\ store = <<Row("EUR", "USD", 1, 1100000), Row("EUR", "GBP", 2, 900000)>>

\* The dates for which the query has stored data.
StoredDates ==
    {d \in Days :
       /\ InQueryRange(d)
       /\ IF query.source = "EUR" THEN StoredEur(d) # {}
          ELSE \E i \in DOMAIN store : store[i].valuation_date = d}

\* C14: get_currency_rates_for_period returns its RateMaps in strictly
\* ascending order of date, one for each date of [date_from, date_to] that
\* has stored data; a date without stored data or outside the range has
\* none, and no RateMap is empty.
C14_Ascending ==
    (period # NoResult /\ period.k = "ok") =>
      /\ \A i, j \in DOMAIN period.v :
           i < j => period.v[i].date.d < period.v[j].date.d
      /\ {period.v[i].date.d : i \in DOMAIN period.v} = StoredDates
      /\ \A i \in DOMAIN period.v : DOMAIN period.v[i].rates # {}

\* Two dates stored in descending order are returned in ascending order.
C14_Witness ==
    /\ period # NoResult /\ period.k = "ok" /\ Len(period.v) = 2
    /\ Len(store) = 2
    /\ store[1].valuation_date = 2 /\ store[2].valuation_date = 1
    /\ period.v[1].date.d = 1 /\ period.v[2].date.d = 2

\* C15: when the period series read for [start_date, today] is empty,
\* get_weighted_ror calls the historical orchestrator once for every day
\* from start_date through today, in ascending order, hands the completed
\* series to calculate_twrr and returns its result without error.
C15_Backfill ==
    (ror.pc = "done" /\ period = Ok(<<>>)) =>
      /\ weighted.k = "ok"
      /\ ror.calls = [i \in 1 .. Len(ror.calls) |-> ror.start_date.d + i - 1]
      /\ Len(ror.calls) =
            IF ror.today.d >= ror.start_date.d
            THEN ror.today.d - ror.start_date.d + 1 ELSE 0

\* C16: over a store holding rates on n >= 2 dates from start_date,
\* get_weighted_ror returns {base, exchanged, amount, start_date, twrr}
\* whose twrr has n-1 points, point k with the date and the
\* source-relative rate of exchanged of the (k+1)-th date and
\* twrr = amount * the cumulative return since the first date.
C16_WeightedRor ==
    (ror.pc = "done" /\ period.k = "ok" /\ Len(period.v) >= 2) =>
      /\ weighted.k = "ok"
      /\ weighted.v.base = query.source
      /\ weighted.v.exchanged = query.exchanged
      /\ weighted.v.amount = ror.amount
      /\ weighted.v.start_date = ror.start_date
      /\ Len(weighted.v.twrr) = Len(period.v) - 1
      /\ \A k \in DOMAIN weighted.v.twrr :
           LET c == query.exchanged[1]
               point == weighted.v.twrr[k]
           IN /\ point.date = period.v[k + 1].date
              /\ c \in DOMAIN period.v[k + 1].rates
              /\ c \in DOMAIN period.v[1].rates
              /\ point.rate_value = period.v[k + 1].rates[c]
              /\ period.v[1].rates[c] # 0
              /\ point.twrr = RoundDiv(ror.amount * period.v[k + 1].rates[c],
                                       period.v[1].rates[c])

\* A historical fetch read back: once fetch_historical_rates_from_provider
\* has returned rates and written their rows, the period aggregator is
\* asked for the same source, exchanged code and date.
ReadBack ==
    /\ pc = "done" /\ op.name = "hist" /\ TruthyResult(outcome)
    /\ store # <<>> /\ period = NoResult
    /\ query' = Query(op.source, op.exchanged, op.date, op.date)
    /\ period' \in get_currency_rates_for_period(
                      op.source, op.exchanged, op.date, op.date, store)
    /\ UNCHANGED <<providers, currencies, store, orchVars, twrrVars,
                   adapterVars, viewVars, ror,
                   weighted>>

NextRoundTrip ==
    \/ Next
    \/ ReadBack

SpecRoundTrip == Init /\ [][NextRoundTrip]_vars

\* C17: after fetch_historical_rates_from_provider(source, exchanged, date)
\* has succeeded and persisted its rates,
\* get_currency_rates_for_period(source, exchanged, date, date) returns,
\* for that date, the persisted rate value of each requested exchanged
\* currency, for every source currency.
C17_RoundTrip ==
    period # NoResult =>
      /\ period.k = "ok"
      /\ \A i \in DOMAIN store :
           store[i].exchanged_currency \in Range(op.exchanged) =>
             \E k \in DOMAIN period.v :
                /\ period.v[k].date.d = op.date
                /\ store[i].exchanged_currency \in DOMAIN period.v[k].rates
                /\ period.v[k].rates[store[i].exchanged_currency]
                      = store[i].rate_value

\* provider_interface.py: the adapter operations called on their own.

\* The exchanged_currency_code arguments: one code, or two comma-joined
\* (the form get_latest_from_provider builds for a forced base).
AdapterSymbols ==
    {<<c>> : c \in Codes}
       \cup {p \in {<<c, d>> : c \in Codes, d \in Codes} : p[1] # p[2]}

AdapterCall(cls, name, source, exchanged, date, resource) ==
    [cls |-> cls, name |-> name, source |-> source, exchanged |-> exchanged,
     date |-> date, resource |-> resource]

AdapterCalls ==
    {AdapterCall("http", n, s, e, d, r) :
        n \in {"latest", "hist"}, s \in Sources, e \in AdapterSymbols,
        d \in Days, r \in HttpBodies}
    \cup
    {AdapterCall("json", n, s, e, d, r) :
        n \in {"latest", "hist"}, s \in Sources, e \in AdapterSymbols,
        d \in Days, r \in Files}

Operate ==
    /\ answer = NoResult
    /\ answer' =
          LET req == [base |-> call.source, symbols |-> call.exchanged]
          IN IF call.name = "latest"
             THEN get_latest_rate(call.cls, req, call.resource)
             ELSE get_historical_rates(call.cls, req, call.date, call.resource)
    /\ UNCHANGED <<providers, currencies, store, orchVars, twrrVars,
                   periodVars, call>>

InitAdapter ==
    /\ providers = {} /\ currencies = Codes /\ store = <<>>
    /\ OrchIdle /\ TwrrIdle /\ PeriodIdle
    /\ call \in AdapterCalls /\ answer = NoResult

NextAdapter == Operate

SpecAdapter == InitAdapter /\ [][NextAdapter]_vars

----------------------------------------------------------------------------
\* Properties of the adapters (specification SpecAdapter).

\* The records of the file of the call that match its date and base.
Matching ==
    {i \in DOMAIN call.resource :
       /\ call.resource[i].date = call.date
       /\ call.resource[i].base = call.source}

\* C18: FileJsonAdapter.get_historical_rates returns the first record of
\* the file whose date is the requested date and whose base is
\* source_code, and returns None, raising nothing, when no record matches
\* that date and base.
C18_FileHistorical ==
    (answer # NoResult /\ call.cls = "json" /\ call.name = "hist") =>
      IF Matching = {} THEN answer = Ok(None)
      ELSE \E i \in Matching :
              /\ \A j \in Matching : i <= j
              /\ answer = Ok(call.resource[i])

\* Two records of day 1 and base EUR: the first is returned.
C18_Witness ==
    /\ answer # NoResult /\ call.cls = "json" /\ call.name = "hist"
    /\ call.source = "EUR" /\ call.date = 1
    /\ Len(call.resource) = 2 /\ Matching = {1, 2}
    /\ call.resource[1] # call.resource[2]
    /\ answer = Ok(call.resource[1])

\* The rate set the latest operation of the call reads: the HTTP answer's,
\* or that of the first record of the file for the base.
BaseRecords == {i \in DOMAIN call.resource : call.resource[i].base = call.source}
LatestRates ==
    IF call.cls = "http" THEN call.resource.m
    ELSE call.resource[CHOOSE i \in BaseRecords :
                          \A j \in BaseRecords : i <= j].rates
HasRateSet ==
    IF call.cls = "http" THEN Truthy(call.resource) ELSE BaseRecords # {}

\* The resource answers without usable rate data.
NoUsableData ==
    \/ call.cls = "http" /\ ~Truthy(call.resource)
    \/ call.cls = "json" /\ call.name = "latest" /\ BaseRecords = {}
    \/ /\ call.name = "latest" /\ Len(call.exchanged) = 1
       /\ HasRateSet /\ call.exchanged[1] \notin DOMAIN LatestRates

\* C19: an adapter operation fails with ProviderError, and no other kind
\* of error, whenever the resource answers without usable rate data: an
\* empty or missing rate set (HttpJsonAdapter), no record for the
\* requested base (FileJsonAdapter latest), or a rate set without the
\* requested currency key.
C19_ProviderError ==
    (answer # NoResult /\ NoUsableData) => answer = Raise("ProviderError")

\* C20: for either adapter get_latest_rate, on a rate set that holds the
\* requested codes, returns a mapping of code to rate covering them when
\* exchanged_code is a comma-joined list, and a scalar decimal when it is
\* a single code.
C20_LatestShape ==
    (/\ answer # NoResult /\ call.name = "latest" /\ HasRateSet
     /\ Range(call.exchanged) \subseteq DOMAIN LatestRates) =>
      /\ answer.k = "ok"
      /\ IF Len(call.exchanged) > 1
         THEN /\ answer.v.t = "map"
              /\ Range(call.exchanged) \subseteq DOMAIN answer.v.m
         ELSE answer.v.t = "dec"

\* views.py: CurrencyRateListView.get, the rate list and its back-fill.

\* The orchestrator between two calls.
OrchReset ==
    /\ pc' = "idle" /\ op' = Idle /\ order' = <<>> /\ idx' = 1
    /\ data' = None /\ trail' = <<>> /\ raw' = NoResult /\ errlog' = <<>>
    /\ outcome' = NoResult

\* A loop body that appends whatever the orchestrator returns.
CollectedAll(period_rates, rates) == Append(period_rates, rates)

\* if rates: period_rates.append(rates)
Collected(period_rates, rates) ==
    IF Truthy(rates) THEN Append(period_rates, rates) ELSE period_rates

\* Lines 44-61: the arguments, other_currencies and the store read.
ListStart ==
    /\ view.pc = "idle" /\ pc = "idle" /\ ror.pc = "idle"
    /\ Len(store) <= MaxRows
    /\ \E source \in Sources, date_from \in Days, date_to \in Days :
         LET others == Items(currencies \ {source})
         IN \E rates \in get_currency_rates_for_period(
                            source, others, date_from, date_to, store) :
               /\ query' = Query(source, others, date_from, date_to)
               /\ period' = rates
               /\ view' = [view EXCEPT
                     !.pc = IF rates.k = "raise" THEN "done"
                            ELSE IF rates.v # <<>> THEN "respond" ELSE "loop",
                     !.source = source, !.others = others,
                     !.date_from = date_from, !.date_to = date_to,
                     !.dt = date_from,
                     !.period_rates = IF rates.k = "ok" THEN rates.v ELSE <<>>,
                     !.calls = <<>>, !.answers = <<>>, !.before = store]
               /\ reply' = IF rates.k = "raise" THEN rates ELSE NoResult
    /\ UNCHANGED <<providers, currencies, store, orchVars, twrrVars,
                   adapterVars, ror, weighted>>

\* Lines 63-68: the test of the while loop and the call of
\* fetch_historical_rates_from_provider for day dt.
ListLoop ==
    /\ view.pc = "loop" /\ pc = "idle"
    /\ IF view.dt <= view.date_to
       THEN /\ \E ord \in OrderByPriority(providers) :
                 /\ order' = ord
                 /\ pc' = IF Len(ord) = 0 THEN "exit" ELSE "loop"
            /\ op' = [name |-> "hist", source |-> view.source,
                      exchanged |-> view.others, date |-> view.dt]
            /\ idx' = 1 /\ data' = None
            /\ view' = [view EXCEPT !.pc = "wait",
                                    !.calls = Append(@, view.dt)]
            /\ UNCHANGED <<trail, raw, errlog, outcome>>
       ELSE /\ view' = [view EXCEPT !.pc = "respond"]
            /\ UNCHANGED orchVars
    /\ UNCHANGED <<providers, currencies, store, twrrVars, adapterVars,
                   query, period, ror, weighted, reply>>

\* Lines 69-71: the call has returned (or raised, which ends the request).
ListResume ==
    /\ view.pc = "wait" /\ pc = "done"
    /\ IF outcome.k = "raise"
       THEN /\ view' = [view EXCEPT !.pc = "done"]
            /\ reply' = outcome
       ELSE /\ view' = [view EXCEPT
                  !.pc = "loop",
                  !.answers = Append(@, outcome.v),
                  !.period_rates = Collected(@, outcome.v),
                  !.dt = @ + 1]
            /\ UNCHANGED reply
    /\ OrchReset
    /\ UNCHANGED <<providers, currencies, store, twrrVars, adapterVars,
                   query, period, ror, weighted>>

\* Line 73: return Response(period_rates)
ListRespond ==
    /\ view.pc = "respond"
    /\ reply' = Ok(view.period_rates)
    /\ view' = [view EXCEPT !.pc = "done"]
    /\ UNCHANGED <<providers, currencies, store, orchVars, twrrVars,
                   adapterVars, query, period, ror, weighted>>

\* The request is over; the next one may come.
ListClose ==
    /\ view.pc = "done"
    /\ view' = ViewIdle([source |-> view.source, date_from |-> view.date_from,
                         date_to |-> view.date_to,
                         wrote |-> store # view.before])
    /\ reply' = NoResult /\ query' = Idle /\ period' = NoResult
    /\ UNCHANGED <<providers, currencies, store, orchVars, twrrVars,
                   adapterVars, ror, weighted>>

\* fetch_latest_rates_from_provider called between two requests of the
\* rate list (the converter view), and its return.
LatestCall == view.pc = "idle" /\ ror.pc = "idle" /\ StartLatest
Release ==
    /\ pc = "done" /\ op.name = "latest"
    /\ OrchReset
    /\ UNCHANGED <<providers, currencies, store, twrrVars, adapterVars,
                   periodVars>>

\* get_weighted_ror called between two requests of the rate list.
RorCall == view.pc = "idle" /\ pc = "idle" /\ RorStart

\* The Provider tables of the requests: no provider, or one of any kind.
ViewTables == {t \in ProviderTables : Cardinality(t) <= 1}

InitView ==
    /\ providers \in ViewTables
    /\ currencies = Codes
    /\ store = <<>>
    /\ OrchIdle /\ TwrrIdle /\ PeriodIdle /\ AdapterIdle

NextView ==
    \/ ListStart
    \/ ListLoop
    \/ HistIter
    \/ HistPersist
    \/ ListResume
    \/ ListRespond
    \/ ListClose
    \/ LatestCall
    \/ LatestIter
    \/ LatestReturn
    \/ Release
    \/ RorCall
    \/ RorLoop
    \/ RorReturn

SpecView == InitView /\ [][NextView]_vars

\* Properties of the rate list and of the store (specification SpecView).

\* The calendar days of the range of the request.
RangeDays(from, to) == IF to >= from THEN to - from + 1 ELSE 0
DaysOf(from, to) == [i \in 1 .. RangeDays(from, to) |-> from + i - 1]

\* C21: in the rate list, when the store read for the range is empty and
\* the orchestrator returns nothing for every day of the range, the
\* request succeeds with an empty list; the response lists the results of
\* the days that returned something, in order, and no null for the others.
C21_NoData ==
    (view.pc = "done" /\ period = Ok(<<>>)) =>
      /\ (/\ Len(view.answers) = RangeDays(view.date_from, view.date_to)
          /\ \A i \in DOMAIN view.answers : view.answers[i] = None)
         => reply = Ok(<<>>)
      /\ reply.k = "ok" => reply.v = SelectSeq(view.answers, Truthy)

\* Two days asked of a provider that has nothing for either: an empty list.
C21_Witness ==
    /\ view.pc = "done" /\ period = Ok(<<>>) /\ providers # {}
    /\ view.calls = <<1, 2>> /\ view.answers = <<None, None>>
    /\ reply = Ok(<<>>)

\* C22: the store is append-only and written only by the tail of
\* fetch_historical_rates_from_provider: every step keeps the rows written
\* before, in place and unchanged, and a step that adds rows is the
\* persistence step of a historical fetch; fetch_latest_rates_from_provider,
\* get_currency_rates_for_period and calculate_twrr add none.
C22_AppendOnly ==
    [][/\ Len(store') >= Len(store)
       /\ SubSeq(store', 1, Len(store)) = store
       /\ store' # store => (op.name = "hist" /\ pc = "exit" /\ pc' = "done")
      ]_vars

\* A latest fetch has returned a rate while the store holds the rows of
\* two historical fetches.
C22_Witness ==
    /\ pc = "done" /\ op.name = "latest" /\ TruthyResult(outcome)
    /\ Len(store) >= 2
    /\ store[1].valuation_date # store[Len(store)].valuation_date

NoRowsInRange ==
    \A i \in DOMAIN store : ~InQueryRange(store[i].valuation_date)

\* C23: get_currency_rates_for_period invokes no provider adapter and
\* writes nothing to the store; when the store has no row in the range it
\* returns an empty sequence, the back-fill being its caller's.
C23_ReadOnly ==
    [][(period = NoResult /\ period' # NoResult) =>
          /\ store' = store
          /\ orchVars' = orchVars
          /\ NoRowsInRange' => period' = Ok(<<>>)
      ]_vars

\* A store whose rows all lie outside the range asked for.
C23_Witness ==
    /\ period = Ok(<<>>) /\ store # <<>> /\ NoRowsInRange
    /\ query.date_from <= query.date_to

\* Properties of the back-fills (specification SpecView).

IsPrefix(s, t) == Len(s) <= Len(t) /\ SubSeq(t, 1, Len(s)) = s

\* The back-fill of the rate list alone: its calls are the days of the
\* range in ascending order, each answered before the next is made, and
\* all of them once the request has been answered.
ViewBackfill ==
    /\ IsPrefix(view.calls, DaysOf(view.date_from, view.date_to))
    /\ Len(view.answers) \in {Len(view.calls), Len(view.calls) - 1}
    /\ view.pc = "loop" => Len(view.answers) = Len(view.calls)
    /\ (view.pc = "done" /\ period = Ok(<<>>) /\ reply.k = "ok") =>
          view.calls = DaysOf(view.date_from, view.date_to)

\* C25: a back-fill over [date_from, date_to], in the rate list and in
\* get_weighted_ror, ends after exactly one orchestrator call per calendar
\* day of the range, made in strictly ascending order of date, each day's
\* result appended before the next day is asked; no call is made when
\* date_from is after date_to.
C25_BackfillOrder ==
    /\ ViewBackfill
    /\ (ror.pc = "done" /\ period = Ok(<<>>)) =>
          ror.calls = DaysOf(ror.start_date.d, ror.today.d)

----------------------------------------------------------------------------
\* services.py: the rebasing steps called on their own, on one raw rate
\* mapping of a provider whose base is call.base.

CodeOrder == <<"EUR", "USD", "GBP">>

\* The mappings a resource with the given base can report: any subset of
\* the codes, the base itself (when listed) at 1.000000, the others at a
\* rate of RateVals, at 1.000000 or at 150.000000 (a yen-like rate).
RawMaps(base) ==
    UNION {{m \in [S -> RateVals \cup {Scale, 150 * Scale}] :
               base \in S => m[base] = Scale} : S \in SUBSET Codes}

\* The forced base is EUR; the source differs from it (the condition of
\* the forced branches) and the exchanged code from the source.
RebaseCalls ==
    {c \in {[base |-> "EUR", source |-> s, exchanged |-> e,
             raw_data |-> Map(m)] :
               s \in Codes, e \in Codes, m \in RawMaps("EUR")} :
        c.source # c.base /\ c.exchanged # c.source}

NoRebase ==
    [latest |-> NoResult, hist |-> NoResult, back |-> NoResult,
     stored |-> NoResult, restored |-> NoResult]

\* The rows of one date that hold the mapping, as get_db_rates yields them.
RowsOf(m) ==
    LET listed == SelectSeq(CodeOrder, LAMBDA c : c \in DOMAIN m)
    IN [i \in DOMAIN listed |-> Row("EUR", listed[i], 1, m[listed[i]])]

\* get_latest_from_provider, forced base: the scalar for call.exchanged.
LatestForced ==
    /\ answer.latest = NoResult
    /\ answer' = [answer EXCEPT !.latest =
          LatestRebase(call.source, <<call.exchanged>>, call.raw_data)]
    /\ UNCHANGED <<providers, currencies, store, orchVars, twrrVars,
                   periodVars, call>>

\* get_hist_from_provider, forced base: the mapping rebased to call.source.
HistForced ==
    /\ answer.hist = NoResult
    /\ answer' = [answer EXCEPT !.hist =
          reverse_rates(call.source, call.raw_data)]
    /\ UNCHANGED <<providers, currencies, store, orchVars, twrrVars,
                   periodVars, call>>

\* reverse_rates applied to its own result, towards the first base.
ReverseBack ==
    /\ answer.hist.k = "ok" /\ answer.back = NoResult
    /\ answer' = [answer EXCEPT !.back =
          reverse_rates(call.base, answer.hist.v)]
    /\ UNCHANGED <<providers, currencies, store, orchVars, twrrVars,
                   periodVars, call>>

\* process_db_rates, source other than EUR: the stored mapping rebased.
StoredRebase ==
    /\ answer.stored = NoResult
    /\ call.source # "EUR" /\ DOMAIN call.raw_data.m # {}
    /\ answer' = [answer EXCEPT !.stored =
          RebasedRateMap(1, RowsOf(call.raw_data.m), call.source)]
    /\ UNCHANGED <<providers, currencies, store, orchVars, twrrVars,
                   periodVars, call>>

\* reverse_rates applied to the rates process_db_rates rebased.
StoredBack ==
    /\ answer.stored.k = "ok" /\ answer.restored = NoResult
    /\ answer' = [answer EXCEPT !.restored =
          reverse_rates(call.base, Map(answer.stored.v.rates))]
    /\ UNCHANGED <<providers, currencies, store, orchVars, twrrVars,
                   periodVars, call>>

InitRebase ==
    /\ providers = {} /\ currencies = Codes /\ store = <<>>
    /\ OrchIdle /\ TwrrIdle /\ PeriodIdle
    /\ call \in RebaseCalls
    /\ answer = NoRebase

NextRebase ==
    LatestForced \/ HistForced \/ ReverseBack \/ StoredRebase \/ StoredBack

SpecRebase == InitRebase /\ [][NextRebase]_vars

----------------------------------------------------------------------------
\* Properties of the rebasing steps (specification SpecRebase).

\* Equal within one unit of the sixth decimal place.
Near(x, y) == x - y \in -1 .. 1

\* back holds every rate of the first mapping of positive rates (its base
\* aside), within rounding.
Recovers(back, m, base) ==
    (back.k = "ok" /\ \A c \in DOMAIN m : m[c] > 0) =>
       \A c \in DOMAIN m \ {base} :
          c \in DOMAIN back.v.m /\ Near(back.v.m[c], m[c])

\* C26: rebasing a rate mapping from base A to base B and then from B back
\* to A gives back each rate of the mapping, within rounding to 6 places.
C26_RoundTrip ==
    /\ answer.back # NoResult =>
          Recovers(answer.back, call.raw_data.m, call.base)
    /\ answer.restored # NoResult =>
          Recovers(answer.restored, call.raw_data.m, call.base)

\* C28: for one raw forced-base mapping, one source_code and one
\* exchanged_code, the scalar of the latest path equals, within rounding
\* to 6 places, the entry for exchanged_code of the historical path: both
\* give the rate in the same direction.
C28_SameDirection ==
    (/\ answer.latest.k = "ok" /\ answer.hist.k = "ok"
     /\ call.exchanged \in DOMAIN answer.hist.v.m) =>
       Near(RoundDiv(answer.latest.v.num, answer.latest.v.den),
            answer.hist.v.m[call.exchanged])

----------------------------------------------------------------------------
\* Properties of the orchestrator's writes (specification Spec).

\* C27: fetch_historical_rates_from_provider adds rows to the store only
\* when it returns a truthy result: a call that returns an absent or empty
\* result, or ends with an error, leaves the store as it was before.
C27_WritesOnSuccess ==
    [][/\ store' # store =>
            op.name = "hist" /\ pc' = "done" /\ TruthyResult(outcome')
       /\ (op.name = "hist" /\ pc' = "done" /\ ~TruthyResult(outcome')) =>
            store' = store]_vars

C27_Witness ==
    /\ pc = "done" /\ op.name = "hist" /\ outcome = Raise("KeyError")
    /\ data # None /\ trail # <<>> /\ store = <<>>

----------------------------------------------------------------------------
\* Properties of repeated and partial reads (specification SpecView).

\* The request in progress repeats the one served before it, whose
\* back-fill persisted rows.
RepeatsWritten ==
    /\ view.pc # "idle" /\ view.last.wrote
    /\ view.source = view.last.source
    /\ view.date_from = view.last.date_from
    /\ view.date_to = view.last.date_to

\* C29: after a rate-list request for [date_from, date_to] has back-filled
\* and persisted rates of at least one day, the same request made again is
\* answered from the store: it calls no provider and adds no row.
C29_RepeatFromStore ==
    RepeatsWritten =>
       /\ view.calls = <<>> /\ store = view.before
       /\ view.pc = "done" => reply.k = "ok"

\* The rows of the table that hold data of the request: rows of a date of
\* the range and, for source EUR, of the pairs the request names (for
\* another source every row of the range is read).
StoredFor(rows, source, others, from, to) ==
    {i \in DOMAIN rows :
       /\ rows[i].valuation_date \in from .. to
       /\ source = "EUR" =>
            /\ rows[i].source_currency = "EUR"
            /\ rows[i].exchanged_currency \in Range(others)}

\* The back-fills start only from an empty read, and a read that is not
\* empty is the answer as it is.
BackfillOnlyOnEmptyRead ==
    /\ view.calls # <<>> => period = Ok(<<>>)
    /\ ror.calls # <<>> => period = Ok(<<>>)
    /\ (view.pc \in {"respond", "done"} /\ period.k = "ok"
          /\ period.v # <<>>) =>
          /\ view.calls = <<>> /\ store = view.before
          /\ view.period_rates = period.v
          /\ \A k \in DOMAIN period.v :
                \E i \in DOMAIN store :
                   store[i].valuation_date = period.v[k].date.d

\* C30: a back-fill through the orchestrator (rate list, get_weighted_ror)
\* starts only when the read of the whole range is empty: when a date of
\* the range has stored data, no provider is asked, no row is written and
\* the days without rows stay out of the result.
C30_NoGapFilling ==
    /\ BackfillOnlyOnEmptyRead
    /\ (view.pc # "idle"
          /\ StoredFor(view.before, view.source, view.others,
                       view.date_from, view.date_to) # {}) =>
          view.calls = <<>> /\ store = view.before
    /\ (ror.pc # "idle"
          /\ StoredFor(store, query.source, query.exchanged,
                       query.date_from, query.date_to) # {}) =>
          ror.calls = <<>>

====
